---- MODULE Spec2Model ----
(***************************************************************************)
(* A model of main.py: the POST /translate endpoint of the translator API. *)
(* One request is validated against TranslationInput, the Gemini client is *)
(* invoked, its text is recovered by parse_json (json.loads, then           *)
(* json_repair.loads) and the recovered value is validated against          *)
(* Translation before it is returned.                                       *)
(*                                                                          *)
(* Text is modelled as a sequence of lexical tokens, JSON data as tagged    *)
(* records, and a string by its content tag and its length in characters.  *)
(***************************************************************************)
EXTENDS Integers, Sequences, FiniteSets, TLC

(***************************************************************************)
(* JSON data as Python holds it after json.loads.                          *)
(***************************************************************************)
JNull == [t |-> "null"]
JBool(b) == [t |-> "bool", b |-> b]
JNum(n) == [t |-> "num", n |-> n]
JStr(txt, len) == [t |-> "str", txt |-> txt, len |-> len]
JArr(items) == [t |-> "arr", items |-> items]
JObj(m) == [t |-> "obj", m |-> m]

\* Python's None, as parse_json returns it: json.loads("null") is None too.
None == JNull

EmptyStr == JStr("", 0)

(***************************************************************************)
(* Tokens of a text.                                                       *)
(***************************************************************************)
Punct(c) == [k |-> c]
StrTok(txt, len) == [k |-> "string", txt |-> txt, len |-> len]
\* An unquoted word; its length is not tracked either.
WordTok(txt) == [k |-> "word", txt |-> txt, len |-> 1]
\* Text on which json_repair raises: the case line 77 handles.
Unrepairable == [k |-> "unrepairable"]
NumTok(n) == [k |-> "number", n |-> n]
Space == [k |-> "space"]

\* Whitespace between tokens means nothing to either parser.
Unspaced(text) == SelectSeq(text, LAMBDA tok : tok.k # "space")

Literals == {"null", "true", "false"}

LiteralValue(txt) ==
  IF txt = "null" THEN JNull
  ELSE IF txt = "true" THEN JBool(TRUE) ELSE JBool(FALSE)

\* The order in which an object's members are written in a text.
KeyOrder ==
  << "translated_word", "target_synonyms", "source_synonyms", "definition",
     "example_usage", "notes" >>

KeysOf(m) == SelectSeq(KeyOrder, LAMBDA key : key \in DOMAIN m)

\* An object key is identified by its text; its length is not tracked.
KeyTok(key) == StrTok(key, 0)

RECURSIVE Dumps(_)
RECURSIVE DumpItems(_, _)
RECURSIVE DumpMembers(_, _, _)

\* json.dumps: the strictly valid text of a value.
Dumps(v) ==
  CASE v.t = "null" -> << WordTok("null") >>
    [] v.t = "bool" -> << WordTok(IF v.b THEN "true" ELSE "false") >>
    [] v.t = "num" -> << NumTok(v.n) >>
    [] v.t = "str" -> << StrTok(v.txt, v.len) >>
    [] v.t = "arr" -> << Punct("[") >> \o DumpItems(v.items, 1) \o << Punct("]") >>
    [] v.t = "obj" ->
         << Punct("{") >> \o DumpMembers(v.m, KeysOf(v.m), 1) \o << Punct("}") >>

DumpItems(items, i) ==
  IF i > Len(items) THEN << >>
  ELSE Dumps(items[i])
         \o (IF i < Len(items) THEN << Punct(",") >> ELSE << >>)
         \o DumpItems(items, i + 1)

DumpMembers(m, keys, i) ==
  IF i > Len(keys) THEN << >>
  ELSE << KeyTok(keys[i]), Punct(":") >> \o Dumps(m[keys[i]])
         \o (IF i < Len(keys) THEN << Punct(",") >> ELSE << >>)
         \o DumpMembers(m, keys, i + 1)

(***************************************************************************)
(* json.loads: the strict parser.  A parse step returns                    *)
(* [ok, val, next]: whether it succeeded, the value, the next position.    *)
(***************************************************************************)
Fail == [ok |-> FALSE, val |-> JNull, next |-> 0]
Got(v, n) == [ok |-> TRUE, val |-> v, next |-> n]

IsTok(toks, i, c) == i <= Len(toks) /\ toks[i].k = c

RECURSIVE StrictValue(_, _)
RECURSIVE StrictItems(_, _, _)
RECURSIVE StrictMembers(_, _, _)

StrictValue(toks, i) ==
  IF i > Len(toks) THEN Fail
  ELSE LET tok == toks[i] IN
    CASE tok.k = "string" -> Got(JStr(tok.txt, tok.len), i + 1)
      [] tok.k = "number" -> Got(JNum(tok.n), i + 1)
      [] tok.k = "word" ->
           IF tok.txt \in Literals THEN Got(LiteralValue(tok.txt), i + 1) ELSE Fail
      [] tok.k = "[" ->
           IF IsTok(toks, i + 1, "]") THEN Got(JArr(<< >>), i + 2)
           ELSE StrictItems(toks, i + 1, << >>)
      [] tok.k = "{" ->
           IF IsTok(toks, i + 1, "}") THEN Got(JObj(<< >>), i + 2)
           ELSE StrictMembers(toks, i + 1, << >>)
      [] OTHER -> Fail

\* After "[" or ",": a value, then "," or "]".
StrictItems(toks, i, acc) ==
  LET r == StrictValue(toks, i) IN
    IF ~r.ok THEN Fail
    ELSE IF IsTok(toks, r.next, ",")
           THEN StrictItems(toks, r.next + 1, Append(acc, r.val))
         ELSE IF IsTok(toks, r.next, "]")
           THEN Got(JArr(Append(acc, r.val)), r.next + 1)
         ELSE Fail

\* After "{" or ",": a quoted key, ":", a value, then "," or "}".  A key
\* written twice keeps its last value.
StrictMembers(toks, i, acc) ==
  IF ~(IsTok(toks, i, "string") /\ IsTok(toks, i + 1, ":")) THEN Fail
  ELSE LET r == StrictValue(toks, i + 2)
           m == (toks[i].txt :> r.val) @@ acc
       IN IF ~r.ok THEN Fail
          ELSE IF IsTok(toks, r.next, ",") THEN StrictMembers(toks, r.next + 1, m)
          ELSE IF IsTok(toks, r.next, "}") THEN Got(JObj(m), r.next + 1)
          ELSE Fail

\* json.loads(text): one value and nothing after it, or JSONDecodeError.
json_loads(text) ==
  LET toks == Unspaced(text)
      r == StrictValue(toks, 1)
  IN
    IF r.ok /\ r.next = Len(toks) + 1 THEN [ok |-> TRUE, val |-> r.val]
    ELSE [ok |-> FALSE, val |-> JNull]

(***************************************************************************)
(* json_repair.loads: the lenient parser.  It skips what it cannot use,    *)
(* takes unquoted words as keys and strings, drops stray commas, closes    *)
(* what the text leaves open, and returns "" when it finds no JSON.        *)
(***************************************************************************)
RECURSIVE RepairValue(_, _)
RECURSIVE RepairItems(_, _, _)
RECURSIVE RepairMembers(_, _, _)
RECURSIVE RepairTop(_, _, _)

\* A value inside an object or an array.
RepairValue(toks, i) ==
  IF i > Len(toks) THEN Got(EmptyStr, i)
  ELSE LET tok == toks[i] IN
    CASE tok.k = "string" -> Got(JStr(tok.txt, tok.len), i + 1)
      [] tok.k = "number" -> Got(JNum(tok.n), i + 1)
      [] tok.k = "word" ->
           IF tok.txt \in Literals THEN Got(LiteralValue(tok.txt), i + 1)
           ELSE Got(JStr(tok.txt, tok.len), i + 1)
      [] tok.k = "[" -> RepairItems(toks, i + 1, << >>)
      [] tok.k = "{" -> RepairMembers(toks, i + 1, << >>)
      [] tok.k = "unrepairable" -> Fail
      [] OTHER -> Got(EmptyStr, i)

RepairItems(toks, i, acc) ==
  IF i > Len(toks) THEN Got(JArr(acc), i)
  ELSE IF toks[i].k = "]" THEN Got(JArr(acc), i + 1)
  ELSE IF toks[i].k \in {",", ":", "}"} THEN RepairItems(toks, i + 1, acc)
  ELSE LET r == RepairValue(toks, i) IN
         IF ~r.ok THEN Fail ELSE RepairItems(toks, r.next, Append(acc, r.val))

RepairMembers(toks, i, acc) ==
  IF i > Len(toks) THEN Got(JObj(acc), i)
  ELSE IF toks[i].k = "}" THEN Got(JObj(acc), i + 1)
  ELSE IF toks[i].k = "unrepairable" THEN Fail
  ELSE IF toks[i].k \notin {"string", "word"} THEN RepairMembers(toks, i + 1, acc)
  ELSE LET j == IF IsTok(toks, i + 1, ":") THEN i + 2 ELSE i + 1
           r == RepairValue(toks, j)
       IN IF ~r.ok THEN Fail
          ELSE RepairMembers(toks, r.next, (toks[i].txt :> r.val) @@ acc)

\* Outside any object or array only "{" and "[" start a value.
RepairTop(toks, i, acc) ==
  IF i > Len(toks) THEN Got(acc, i)
  ELSE IF toks[i].k = "unrepairable" THEN Fail
  ELSE IF toks[i].k \notin {"{", "["} THEN RepairTop(toks, i + 1, acc)
  ELSE LET r == RepairValue(toks, i) IN
         IF ~r.ok THEN Fail ELSE RepairTop(toks, r.next, Append(acc, r.val))

\* json_repair.loads(text): the value found, a list of them when there are
\* several, "" when there is none; or an exception.
json_repair_loads(text) ==
  LET r == RepairTop(Unspaced(text), 1, << >>) IN
    IF ~r.ok THEN [ok |-> FALSE, val |-> JNull]
    ELSE [ok |-> TRUE,
          val |-> IF Len(r.val) = 0 THEN EmptyStr
                  ELSE IF Len(r.val) = 1 THEN r.val[1] ELSE JArr(r.val)]

\* parse_json without its fallback.
parse_json_strict_only(text) ==
  LET strict == json_loads(text) IN IF strict.ok THEN strict.val ELSE None

\* parse_json, lines 68-79.
parse_json(text) ==
  LET strict == json_loads(text) IN
    IF strict.ok THEN strict.val
    ELSE LET repaired == json_repair_loads(text) IN
           IF repaired.ok THEN repaired.val ELSE None

(***************************************************************************)
(* The pydantic models, lines 17-63.                                       *)
(***************************************************************************)
WordMinLen == 1
WordMaxLen == 100
ContextMinLen == 10
ContextMaxLen == 1000

TranslatedWordMinLen == 1
TranslatedWordMaxLen == 255
TargetSynonymsMinItems == 0
TargetSynonymsMaxItems == 5
SourceSynonymsMinItems == 0
SourceSynonymsMaxItems == 5
DefinitionMinLen == 5
DefinitionMaxLen == 500
ExampleUsageMinLen == 5
ExampleUsageMaxLen == 500

StrField(name, lo, hi) == [name |-> name, kind |-> "str", lo |-> lo, hi |-> hi]
ListField(name, lo, hi) == [name |-> name, kind |-> "list", lo |-> lo, hi |-> hi]

\* TranslationInput with its upper bounds taken as exclusive.
TranslationInputExclusive ==
  { StrField("word", WordMinLen, WordMaxLen - 1),
    StrField("context", ContextMinLen, ContextMaxLen - 1) }

\* class TranslationInput
TranslationInput ==
  { StrField("word", WordMinLen, WordMaxLen),
    StrField("context", ContextMinLen, ContextMaxLen) }

\* class Translation
Translation ==
  { StrField("translated_word", TranslatedWordMinLen, TranslatedWordMaxLen),
    ListField("target_synonyms", TargetSynonymsMinItems, TargetSynonymsMaxItems),
    ListField("source_synonyms", SourceSynonymsMinItems, SourceSynonymsMaxItems),
    StrField("definition", DefinitionMinLen, DefinitionMaxLen),
    StrField("example_usage", ExampleUsageMinLen, ExampleUsageMaxLen) }

FieldNames(model) == { f.name : f \in model }

Err(loc, type) == [loc |-> loc, type |-> type]

\* The errors pydantic reports for one str field holding v.
StrErrors(f, v) ==
  IF v.t # "str" THEN { Err(f.name, "string_type") }
  ELSE IF v.len < f.lo THEN { Err(f.name, "string_too_short") }
  ELSE IF v.len > f.hi THEN { Err(f.name, "string_too_long") }
  ELSE { }

\* List[str] with max_items left out.
ListErrorsNoMax(f, v) ==
  IF v.t # "arr" THEN { Err(f.name, "list_type") }
  ELSE IF \E i \in 1..Len(v.items) : v.items[i].t # "str"
    THEN { Err(f.name, "string_type") }
  ELSE IF Len(v.items) < f.lo THEN { Err(f.name, "too_short") }
  ELSE { }

\* The errors pydantic reports for one List[str] field holding v.
ListErrors(f, v) ==
  IF v.t # "arr" THEN { Err(f.name, "list_type") }
  ELSE IF Len(v.items) > f.hi THEN { Err(f.name, "too_long") }
  ELSE IF \E i \in 1..Len(v.items) : v.items[i].t # "str"
    THEN { Err(f.name, "string_type") }
  ELSE IF Len(v.items) < f.lo THEN { Err(f.name, "too_short") }
  ELSE { }

FieldErrors(f, m) ==
  IF f.name \notin DOMAIN m THEN { Err(f.name, "missing") }
  ELSE IF f.kind = "str" THEN StrErrors(f, m[f.name])
  ELSE ListErrors(f, m[f.name])

\* BaseModel.__init__(**m): every field is validated and every error kept.
ModelErrors(model, m) == UNION { FieldErrors(f, m) : f \in model }

\* The model instance with a declared field left out.
ModelDataLossy(model, m) ==
  [name \in FieldNames(model) \ {"example_usage"} |-> m[name]]

\* The model instance: the declared fields, anything else is ignored.
ModelData(model, m) == [name \in FieldNames(model) |-> m[name]]

(***************************************************************************)
(* Responses and the handler's except clauses, lines 188-214.              *)
(***************************************************************************)
NoBody == [t |-> "none"]
NoDetail == [prefix |-> "", exc |-> << >>, errors |-> { }]
NoResponse == [status |-> 0, body |-> NoBody, detail |-> NoDetail]

ParseFailDetail == "Failed to parse or repair JSON response from the language model."
MismatchPrefix ==
  "Language model returned data that doesn't match the expected structure: "
InternalPrefix == "An internal error occurred during translation: "

HTTPException(status, detail) ==
  [cls |-> "HTTPException", status |-> status, msg |-> detail]
TypeError == [cls |-> "TypeError", status |-> 0, msg |-> "argument after ** must be a mapping"]
LLMError(msg) == [cls |-> "LLMError", status |-> 0, msg |-> msg]

\* str(e).  An HTTPException built from keyword arguments has no args: it
\* prints as "status: detail" where the framework defines __str__, and as
\* the empty string where it does not.
Str(e, renders) ==
  IF e.cls = "HTTPException"
    THEN IF renders THEN << "500: ", e.msg >> ELSE << >>
  ELSE IF e.msg = "" THEN << >> ELSE << e.msg >>

\* FastAPI's answer to a body that fails TranslationInput.
RequestValidationError(errors) ==
  [status |-> 422, body |-> NoBody,
   detail |-> [prefix |-> "", exc |-> << >>, errors |-> errors]]

\* except ValidationError, lines 200-207.
OnValidationError(errors) ==
  [status |-> 500, body |-> NoBody,
   detail |-> [prefix |-> MismatchPrefix, exc |-> << >>, errors |-> errors]]

\* except Exception raising a bare HTTPException(500).
OnExceptionBare(e, renders) == [status |-> 500, body |-> NoBody, detail |-> NoDetail]

\* except Exception, lines 208-214: it catches the HTTPException of line 188 too.
OnException(e, renders) ==
  [status |-> 500, body |-> NoBody,
   detail |-> [prefix |-> InternalPrefix, exc |-> Str(e, renders), errors |-> { }]]

\* return validated_data under response_model=Translation.
Success(data) == [status |-> 200, body |-> JObj(data), detail |-> NoDetail]

\* raw_json_string = gemini_response.content.strip()
IsSpace(tok) == tok.k = "space"

RECURSIVE LStrip(_)
LStrip(text) ==
  IF Len(text) > 0 /\ IsSpace(Head(text)) THEN LStrip(Tail(text)) ELSE text

RECURSIVE RStrip(_)
RStrip(text) ==
  IF Len(text) > 0 /\ IsSpace(text[Len(text)])
    THEN RStrip(SubSeq(text, 1, Len(text) - 1))
  ELSE text

Strip(text) == RStrip(LStrip(text))

(***************************************************************************)
(* What the callers send and what the language model answers.              *)
(***************************************************************************)
Words == << "a", "b", "c", "d", "e", "f", "g" >>

Strs(n) == [i \in 1..n |-> JStr(Words[i], 4)]

Has(v) == [has |-> TRUE, v |-> v]
Absent == [has |-> FALSE, v |-> JNull]

\* An object with the members that are present.
Object(opts) ==
  JObj([key \in { q \in DOMAIN opts : opts[q].has } |-> opts[key].v])

\* Request bodies: word and context at and around their length bounds.
RequestBodies ==
  { JObj("word" :> JStr("bank", w) @@ "context" :> JStr("river", c)) :
      w \in {WordMinLen - 1, WordMinLen, WordMaxLen, WordMaxLen + 1},
      c \in {ContextMinLen - 1, ContextMinLen, ContextMaxLen, ContextMaxLen + 1} }

TranslatedWordOpts ==
  { Has(JStr("tw", n)) :
      n \in {TranslatedWordMinLen - 1, TranslatedWordMinLen,
             TranslatedWordMaxLen, TranslatedWordMaxLen + 1} }
    \cup {Absent, Has(JNum(7))}

TargetSynonymsOpts ==
  { Has(JArr(Strs(n))) :
      n \in {TargetSynonymsMinItems, TargetSynonymsMaxItems,
             TargetSynonymsMaxItems + 1} }
    \cup {Has(JArr(<< JNum(1) >>))}

SourceSynonymsOpts ==
  { Has(JArr(Strs(SourceSynonymsMaxItems))), Has(JStr("bank", 4)) }

DefinitionOpts ==
  { Has(JStr("def", n)) :
      n \in {DefinitionMinLen - 1, DefinitionMinLen, DefinitionMaxLen + 1} }
    \cup {Absent}

ExampleUsageOpts ==
  { Has(JStr("ex", ExampleUsageMaxLen)), Has(JNull) }

NotesOpts == {Absent, Has(JStr("note", 9))}

\* The objects the model may answer with: every field right, wrong or
\* missing, alone and together, with and without a key the schema lacks.
LLMObjects ==
  { Object("translated_word" :> tw @@ "target_synonyms" :> ts
             @@ "source_synonyms" :> ss @@ "definition" :> d
             @@ "example_usage" :> ex @@ "notes" :> nt) :
      tw \in TranslatedWordOpts, ts \in TargetSynonymsOpts,
      ss \in SourceSynonymsOpts, d \in DefinitionOpts,
      ex \in ExampleUsageOpts, nt \in NotesOpts }

\* JSON that is no object.
LLMScalars ==
  { JNull, JBool(TRUE), JNum(42), JStr("bank", 4), JArr(<< >>),
    JArr(<< JStr("tw", 3) >>) }

\* A trailing comma before the closing brace.
TrailingComma(text) ==
  SubSeq(text, 1, Len(text) - 1) \o << Punct(","), text[Len(text)] >>

\* Every key written without its quotes.
UnquotedKeys(text) ==
  [i \in 1..Len(text) |->
     IF text[i].k = "string" /\ IsTok(text, i + 1, ":")
       THEN WordTok(text[i].txt) ELSE text[i]]

\* The text cut before its closing brace.
Truncated(text) == SubSeq(text, 1, Len(text) - 1)

Preamble(text) == << WordTok("Here"), WordTok("it"), WordTok("is") >> \o text

Padded(text) == << Space >> \o text \o << Space >>

Prose == << WordTok("Sorry"), Space, WordTok("no"), Space, WordTok("translation") >>

\* The texts an object may arrive as.
TextsOf(v) ==
  LET text == Dumps(v) IN
    { text, Padded(text), TrailingComma(text), UnquotedKeys(text),
      TrailingComma(UnquotedKeys(text)), Truncated(text), Preamble(text) }

OtherTexts ==
  { Dumps(v) : v \in LLMScalars }
    \cup { Prose, << >>, << Unrepairable >>, << Punct("{"), Unrepairable >> }

LLMTexts == UNION { TextsOf(v) : v \in LLMObjects } \cup OtherTexts

\* The messages a failed call may carry.
LLMErrors == { LLMError("quota exceeded"), LLMError("") }

(***************************************************************************)
(* The service: the client built at startup and the requests in flight.    *)
(***************************************************************************)
VARIABLES
  gemini_model,         \* the client of lines 131-135, shared by every request
  http_exception_str,   \* whether the framework's HTTPException defines __str__
  pc,                   \* where each request is
  input_data,           \* the request body
  raw_json_string,      \* line 179
  parsed_data,          \* line 182
  response,             \* what the caller receives
  llm_calls,            \* how often line 176 ran for the request
  llm_answer,           \* what the call gave: a text or an exception
  parse_log,            \* which parsers ran on the text and how they ended
  validated_input       \* the value Translation(...) was called with

vars ==
  << gemini_model, http_exception_str, pc, input_data, raw_json_string,
     parsed_data, response, llm_calls, llm_answer, parse_log, validated_input >>

Client ==
  [model |-> "models/gemini-1.5-flash", temperature |-> "0.5",
   google_api_key |-> "GEMINI_API_KEY"]

NoAnswer == [raised |-> FALSE, text |-> << >>, error |-> LLMError("")]
NoParse == [strict |-> "not run", repair |-> "not run"]
NotCalled == [t |-> "none"]

\* The locals kept in one module-level place instead.
SharedFrame(r) == 1

\* The locals of one call of translate_word_endpoint are that call's own.
Frame(r) == r

Init(R) ==
  /\ gemini_model = Client
  /\ http_exception_str \in BOOLEAN
  /\ pc = [r \in R |-> "idle"]
  /\ input_data = [r \in R |-> NoBody]
  /\ raw_json_string = [r \in R |-> << >>]
  /\ parsed_data = [r \in R |-> NotCalled]
  /\ response = [r \in R |-> NoResponse]
  /\ llm_calls = [r \in R |-> 0]
  /\ llm_answer = [r \in R |-> NoAnswer]
  /\ parse_log = [r \in R |-> NoParse]
  /\ validated_input = [r \in R |-> NotCalled]

\* A caller posts a body to /translate.
Receive(r, Bodies) ==
  /\ pc[r] = "idle"
  /\ \E body \in Bodies : input_data' = [input_data EXCEPT ![r] = body]
  /\ pc' = [pc EXCEPT ![r] = "received"]
  /\ UNCHANGED << gemini_model, http_exception_str, raw_json_string, parsed_data,
                  response, llm_calls, llm_answer, parse_log, validated_input >>

\* FastAPI validates the body against TranslationInput before the handler runs.
ValidateRequest(r) ==
  /\ pc[r] = "received"
  /\ LET errors == ModelErrors(TranslationInput, input_data[r].m) IN
       IF errors = { }
         THEN /\ pc' = [pc EXCEPT ![r] = "invoke"]
              /\ UNCHANGED response
         ELSE /\ pc' = [pc EXCEPT ![r] = "done"]
              /\ response' = [response EXCEPT ![r] = RequestValidationError(errors)]
  /\ UNCHANGED << gemini_model, http_exception_str, input_data, raw_json_string,
                  parsed_data, llm_calls, llm_answer, parse_log, validated_input >>

\* Line 176 raises and the call is made again.
InvokeRaisesRetry(r) ==
  /\ pc[r] = "invoke"
  /\ llm_calls[r] < 3
  /\ llm_calls' = [llm_calls EXCEPT ![r] = @ + 1]
  /\ UNCHANGED << gemini_model, http_exception_str, pc, input_data, raw_json_string,
                  parsed_data, response, llm_answer, parse_log, validated_input >>

\* Line 176 raises: the except clause of line 208 answers.
InvokeRaises(r) ==
  /\ pc[r] = "invoke"
  /\ llm_calls' = [llm_calls EXCEPT ![r] = @ + 1]
  /\ \E e \in LLMErrors :
       /\ llm_answer' = [llm_answer EXCEPT ![r] = [NoAnswer EXCEPT !.raised = TRUE, !.error = e]]
       /\ response' = [response EXCEPT ![r] = OnException(e, http_exception_str)]
  /\ pc' = [pc EXCEPT ![r] = "done"]
  /\ UNCHANGED << gemini_model, http_exception_str, input_data, raw_json_string,
                  parsed_data, parse_log, validated_input >>

\* Lines 176-179: the call returns a text, which is stripped.
InvokeReturns(r, Texts) ==
  /\ pc[r] = "invoke"
  /\ llm_calls' = [llm_calls EXCEPT ![r] = @ + 1]
  /\ \E content \in Texts :
       /\ llm_answer' = [llm_answer EXCEPT ![r] = [NoAnswer EXCEPT !.text = content]]
       /\ raw_json_string' = [raw_json_string EXCEPT ![Frame(r)] = Strip(content)]
  /\ pc' = [pc EXCEPT ![r] = "parse"]
  /\ UNCHANGED << gemini_model, http_exception_str, input_data, parsed_data,
                  response, parse_log, validated_input >>

\* Which parsers parse_json runs on a text.
ParseLog(text) ==
  IF json_loads(text).ok THEN [strict |-> "ok", repair |-> "not run"]
  ELSE [strict |-> "failed",
        repair |-> IF json_repair_loads(text).ok THEN "ok" ELSE "failed"]

\* Lines 182-191: parse_json, and the HTTPException when it gives None,
\* raised inside the try and so caught at line 208.
Parse(r) ==
  /\ pc[r] = "parse"
  /\ LET parsed == parse_json(raw_json_string[Frame(r)]) IN
       /\ parsed_data' = [parsed_data EXCEPT ![Frame(r)] = parsed]
       /\ parse_log' = [parse_log EXCEPT ![r] = ParseLog(raw_json_string[Frame(r)])]
       /\ IF parsed = None
            THEN /\ response' =
                      [response EXCEPT ![r] =
                         OnException(HTTPException(500, ParseFailDetail),
                                     http_exception_str)]
                 /\ pc' = [pc EXCEPT ![r] = "done"]
            ELSE /\ pc' = [pc EXCEPT ![r] = "validate"]
                 /\ UNCHANGED response
  /\ UNCHANGED << gemini_model, http_exception_str, input_data, raw_json_string,
                  llm_calls, llm_answer, validated_input >>

\* Lines 195-207: Translation(**parsed_data).  What is no mapping cannot be
\* unpacked: a TypeError before Translation is called.
translation_result(parsed, renders) ==
  IF parsed.t # "obj" THEN OnException(TypeError, renders)
  ELSE LET errors == ModelErrors(Translation, parsed.m) IN
         IF errors = { } THEN Success(ModelData(Translation, parsed.m))
         ELSE OnValidationError(errors)

Validate(r) ==
  /\ pc[r] = "validate"
  /\ LET parsed == parsed_data[Frame(r)] IN
       /\ response' =
            [response EXCEPT ![r] = translation_result(parsed, http_exception_str)]
       /\ validated_input' =
            [validated_input EXCEPT ![r] = IF parsed.t = "obj" THEN parsed ELSE @]
  /\ pc' = [pc EXCEPT ![r] = "done"]
  /\ UNCHANGED << gemini_model, http_exception_str, input_data, raw_json_string,
                  parsed_data, llm_calls, llm_answer, parse_log >>

\* The response is sent and the call's frame is gone.
Respond(r) ==
  /\ pc[r] = "done"
  /\ pc' = [pc EXCEPT ![r] = "idle"]
  /\ input_data' = [input_data EXCEPT ![r] = NoBody]
  /\ raw_json_string' = [raw_json_string EXCEPT ![Frame(r)] = << >>]
  /\ parsed_data' = [parsed_data EXCEPT ![Frame(r)] = NotCalled]
  /\ response' = [response EXCEPT ![r] = NoResponse]
  /\ llm_calls' = [llm_calls EXCEPT ![r] = 0]
  /\ llm_answer' = [llm_answer EXCEPT ![r] = NoAnswer]
  /\ parse_log' = [parse_log EXCEPT ![r] = NoParse]
  /\ validated_input' = [validated_input EXCEPT ![r] = NotCalled]
  /\ UNCHANGED << gemini_model, http_exception_str >>

Next(R, Bodies, Texts) ==
  \E r \in R :
    \/ Receive(r, Bodies)
    \/ ValidateRequest(r)
    \/ InvokeRaises(r)
    \/ InvokeReturns(r, Texts)
    \/ Parse(r)
    \/ Validate(r)
    \/ Respond(r)

\* One request at a time, every body and every answer of the language model.
Spec == Init({1}) /\ [][Next({1}, RequestBodies, LLMTexts)]_vars

(***************************************************************************)
(* Requests served concurrently.                                           *)
(***************************************************************************)
NumRequests == 2

ValidObject(tw, notes) ==
  Object("translated_word" :> Has(JStr(tw, TranslatedWordMinLen))
           @@ "target_synonyms" :> Has(JArr(Strs(TargetSynonymsMinItems)))
           @@ "source_synonyms" :> Has(JArr(Strs(SourceSynonymsMaxItems)))
           @@ "definition" :> Has(JStr("def", DefinitionMinLen))
           @@ "example_usage" :> Has(JStr("ex", ExampleUsageMaxLen))
           @@ "notes" :> notes)

FewBodies ==
  { JObj("word" :> JStr("bank", WordMaxLen) @@ "context" :> JStr("river", ContextMinLen)),
    JObj("word" :> JStr("bat", WordMinLen) @@ "context" :> JStr("cave", ContextMaxLen)),
    JObj("word" :> JStr("", WordMinLen - 1) @@ "context" :> JStr("cave", ContextMaxLen)) }

FewTexts ==
  { Dumps(ValidObject("tw1", Absent)),
    TrailingComma(Dumps(ValidObject("tw2", Has(JStr("note", 9))))),
    Dumps(JObj(<< >>)),
    Dumps(JNull),
    Prose }

SpecConc ==
  Init(1..NumRequests) /\ [][Next(1..NumRequests, FewBodies, FewTexts)]_vars

\* translate_word_endpoint as a function of the body and of the answer.
Endpoint(body, answer, renders) ==
  LET errors == ModelErrors(TranslationInput, body.m) IN
    IF errors # { } THEN RequestValidationError(errors)
    ELSE IF answer.raised THEN OnException(answer.error, renders)
    ELSE LET parsed == parse_json(Strip(answer.text)) IN
           IF parsed = None
             THEN OnException(HTTPException(500, ParseFailDetail), renders)
           ELSE translation_result(parsed, renders)

(***************************************************************************)
(* The properties.                                                         *)
(***************************************************************************)
Requests == DOMAIN pc

Done(r) == pc[r] = "done"

\* The request passed request validation: the handler ran.
Handled(r) == pc[r] \in {"invoke", "parse", "validate"} \/ (Done(r) /\ llm_calls[r] > 0)

\* The language model answered with a text.
Answered(r) == pc[r] \in {"parse", "validate"} \/ (Done(r) /\ llm_calls[r] > 0 /\ ~llm_answer[r].raised)

\* The text was parsed: parsed_data holds what parse_json returned.
Parsed(r) == pc[r] = "validate" \/ (Done(r) /\ parse_log[r] # NoParse)

\* The bounds of a request body, as the interface states them.
WordInBounds(body) == body.m["word"].len >= 1 /\ body.m["word"].len <= 100
ContextInBounds(body) == body.m["context"].len >= 10 /\ body.m["context"].len <= 1000
BodyInBounds(body) == WordInBounds(body) /\ ContextInBounds(body)

\* The TranslationResult contract, field by field, as the interface states it.
IsStrOf(v, lo, hi) == v.t = "str" /\ v.len >= lo /\ v.len <= hi
IsStrListOf(v, lo, hi) ==
  /\ v.t = "arr"
  /\ Len(v.items) >= lo /\ Len(v.items) <= hi
  /\ \A i \in 1..Len(v.items) : v.items[i].t = "str"

ResultFields ==
  {"translated_word", "target_synonyms", "source_synonyms", "definition",
   "example_usage"}

FieldOk(v, name) ==
  /\ v.t = "obj"
  /\ name \in DOMAIN v.m
  /\ CASE name = "translated_word" -> IsStrOf(v.m[name], 1, 255)
       [] name = "target_synonyms" -> IsStrListOf(v.m[name], 0, 5)
       [] name = "source_synonyms" -> IsStrListOf(v.m[name], 0, 5)
       [] name = "definition" -> IsStrOf(v.m[name], 5, 500)
       [] name = "example_usage" -> IsStrOf(v.m[name], 5, 500)

ViolatedFields(v) == { name \in ResultFields : ~FieldOk(v, name) }

\* The value matches the schema: every field of the contract is there and
\* within its bounds.  The schema does not forbid other keys.
MatchesSchema(v) == ViolatedFields(v) = { }

\* The detail says s.
Mentions(detail, s) ==
  detail.prefix = s \/ \E i \in 1..Len(detail.exc) : detail.exc[i] = s

(* C1: once a request's body has been validated, the request goes on to the *)
(* handler exactly when word has 1 to 100 characters and context has 10 to  *)
(* 1000; every other body is answered 422.                                  *)
C1_RequestBounds ==
  \A r \in Requests :
    pc[r] \notin {"idle", "received"} =>
      IF BodyInBounds(input_data[r])
        THEN Handled(r) /\ response[r].status # 422
        ELSE Done(r) /\ response[r].status = 422 /\ llm_calls[r] = 0

C1_Witness ==
  \E r \in Requests :
    /\ Done(r) /\ response[r].status = 422
    /\ input_data[r].m["word"].len = 100
    /\ input_data[r].m["context"].len = 1001

\* What strictly parsing the model's answer gives.
StrictAnswer(r) == json_loads(llm_answer[r].text)

\* The answer was strictly valid JSON that matches the schema.
StrictAndMatching(r) ==
  /\ Done(r) /\ Answered(r)
  /\ StrictAnswer(r).ok
  /\ MatchesSchema(StrictAnswer(r).val)

(* C2 as stated: a strictly valid answer that matches the schema is         *)
(* returned with status 200 as it is, no field added, dropped or altered.   *)
C2_Unchanged ==
  \A r \in Requests :
    StrictAndMatching(r) =>
      response[r].status = 200 /\ response[r].body = StrictAnswer(r).val

(* C2 as amended: a strictly valid answer that matches the schema is        *)
(* returned with status 200 and a body of exactly the five fields of the    *)
(* contract, each with the answer's value; other keys are dropped.          *)
C2_FieldsUnchanged ==
  \A r \in Requests :
    StrictAndMatching(r) =>
      /\ response[r].status = 200
      /\ response[r].body = JObj([name \in ResultFields |-> StrictAnswer(r).val.m[name]])

C2_Witness ==
  \E r \in Requests :
    /\ StrictAndMatching(r)
    /\ "notes" \in DOMAIN StrictAnswer(r).val.m
    /\ response[r].status = 200
    /\ response[r].body.m["translated_word"] = JStr("tw", 255)

\* Prose: words only, no brace, no bracket, no JSON literal.
NotJsonLike(text) ==
  /\ \E i \in 1..Len(text) : text[i].k = "word"
  /\ \A i \in 1..Len(text) :
       text[i].k \in {"word", "space"} /\ (text[i].k = "word" => text[i].txt \notin Literals)

(* C3: an answer that is not JSON-like at all is answered with status 500   *)
(* and a detail that mentions the parse/repair failure.                     *)
C3_ProseIsParseFailure ==
  \A r \in Requests :
    Done(r) /\ Answered(r) /\ NotJsonLike(llm_answer[r].text) =>
      response[r].status = 500 /\ Mentions(response[r].detail, ParseFailDetail)

\* parse_json recovered a value: one of the two parsers succeeded.
Recovered(r) ==
  Parsed(r) /\ (parse_log[r].strict = "ok" \/ parse_log[r].repair = "ok")

(* C4: every recovered value that does not satisfy the contract is answered *)
(* with status 500 and a detail that lists every violated field together;   *)
(* a value without definition yields a detail that names definition.        *)
C4_AllViolationsListed ==
  \A r \in Requests :
    Done(r) /\ Recovered(r) /\ ~MatchesSchema(parsed_data[r]) =>
      /\ response[r].status = 500
      /\ { e.loc : e \in response[r].detail.errors } = ViolatedFields(parsed_data[r])

\* The request passed request validation and a later step failed.
FailedLater(r) ==
  /\ Done(r) /\ Handled(r)
  /\ \/ llm_answer[r].raised
     \/ Parsed(r) /\ parse_log[r].strict = "failed" /\ parse_log[r].repair = "failed"
     \/ Recovered(r) /\ ~MatchesSchema(parsed_data[r])

C6_OneCall ==
  \A r \in Requests :
    /\ llm_calls[r] <= 1
    /\ pc[r] \in {"idle", "received", "invoke"} => llm_calls[r] = 0
    /\ pc[r] \in {"parse", "validate"} => llm_calls[r] = 1
    /\ Done(r) => llm_calls[r] = (IF BodyInBounds(input_data[r]) THEN 1 ELSE 0)
    /\ llm_answer[r].raised =>
         Done(r) /\ llm_calls[r] = 1 /\ response[r].status = 500

C6_Witness ==
  \E r \in Requests :
    llm_answer[r].raised /\ Done(r) /\ llm_calls[r] = 1 /\ response[r].status = 500

(* C7: a 200 response carries a body that satisfies the whole contract:     *)
(* translated_word of 1-255 characters, both synonym lists of 0-5 strings,  *)
(* definition and example_usage of 5-500 characters; whatever the answer.   *)
C7_OkBodySatisfiesContract ==
  \A r \in Requests :
    response[r].status = 200 =>
      /\ response[r].body.t = "obj"
      /\ DOMAIN response[r].body.m = ResultFields
      /\ MatchesSchema(response[r].body)

C7_Witness ==
  \E r \in Requests :
    /\ response[r].status = 200
    /\ response[r].body.m["translated_word"].len = 255
    /\ Len(response[r].body.m["target_synonyms"].items) = 5
    /\ ~StrictAnswer(r).ok

\* The text with its unquoted keys quoted.
QuoteKeys(text) ==
  [i \in 1..Len(text) |->
     IF text[i].k = "word" /\ IsTok(text, i + 1, ":")
       THEN KeyTok(text[i].txt) ELSE text[i]]

RECURSIVE DropTrailingCommas(_, _)
\* The text without the commas that stand before a closing brace or bracket.
DropTrailingCommas(text, i) ==
  IF i > Len(text) THEN << >>
  ELSE IF text[i].k = "," /\ (IsTok(text, i + 1, "}") \/ IsTok(text, i + 1, "]"))
    THEN DropTrailingCommas(text, i + 1)
  ELSE << text[i] >> \o DropTrailingCommas(text, i + 1)

CorrectedText(text) == DropTrailingCommas(QuoteKeys(text), 1)

\* The text is a strictly valid JSON object but for trailing commas or
\* unquoted keys.
OnlyCommasOrKeys(text) ==
  /\ CorrectedText(text) # text
  /\ json_loads(CorrectedText(text)).ok
  /\ json_loads(CorrectedText(text)).val.t = "obj"

C9_Independent ==
  /\ gemini_model = Client
  /\ \A r \in Requests :
       Done(r) =>
         response[r] = Endpoint(input_data[r], llm_answer[r], http_exception_str)

C9_Witness ==
  \E r1, r2 \in Requests :
    /\ r1 # r2
    /\ Done(r1) /\ Done(r2)
    /\ response[r1].status = 200 /\ response[r2].status = 200
    /\ response[r1].body # response[r2].body

\* The request was answered by the 'failed to parse or repair' raise of line 188.
TookParseFailPath(r) ==
  /\ Done(r) /\ parse_log[r] # NoParse
  /\ response[r] = OnException(HTTPException(500, ParseFailDetail), http_exception_str)

(* C10: the 'failed to parse or repair JSON' path is taken only when both   *)
(* parsers failed; when the strict parse succeeds, whatever value it gives, *)
(* the lenient parse is not run and that value is handed to schema          *)
(* validation.                                                              *)
C10_ParseFailOnlyWhenBothFail ==
  \A r \in Requests :
    /\ TookParseFailPath(r) =>
         parse_log[r].strict = "failed" /\ parse_log[r].repair = "failed"
    /\ Done(r) /\ parse_log[r].strict = "ok" =>
         /\ parse_log[r].repair = "not run"
         /\ validated_input[r] = json_loads(raw_json_string[r]).val

====
